---- MODULE Spec2Model ----
(***************************************************************************)
(* Automation layer of the efflux tracker: applyModuleParamChange and the  *)
(* appliers it routes to (src/services/audio/module-automation.js), with   *)
(* toHex of the number utilities (src/js/config/Config.js).                *)
(*                                                                         *)
(* Numbers.  The code computes in JS doubles.  Every quantity scheduled on *)
(* a control is kept here as an exact integer in a unit fixed per control: *)
(*   gain, pan, playbackRate, delay time/feedback/offset : 1/100           *)
(*   filter.frequency, filter.Q, lfo.frequency, delay cutoff : 1/100       *)
(*   lfoAmp.gain : 1/10000                                                 *)
(*   oscillator frequency : 1/PitchUnit Hz                                 *)
(* so that mp.value / 100 is the integer mp.value.  toHex is the one place *)
(* where the rounding of the double product decides the result; there the  *)
(* double arithmetic is modelled bit for bit (FMul, MathRound).            *)
(*                                                                         *)
(* AudioParam.value is owned by the host's audio engine.  A read of it is  *)
(* an input of the dispatch: the call draws a reading index and every      *)
(* control reports Reading(control, index).                                *)
(***************************************************************************)
EXTENDS Integers, Sequences, FiniteSets, TLC

\* ------------------------------------------------------------------ bounds

\* voice slots of the instrument (EVENT_VOICE_LIST entries that can be live)
MaxVoices == 2
\* external events whose timer can be pending at once
MaxTimers == 2

Voices == 1 .. MaxVoices
TimerIds == 1 .. MaxTimers

\* mp.value inputs; 49 and 50 sit on both sides of the enable threshold
Values == {0, 50, 100}
EnableValues == {0, 49, 50, 100}
HexValues == 0 .. 100
StartTimes == {1, 2}
MpLengths == {1, 2}
\* voice.frequency of a note, in Hz
Frequencies == {220, 440}
\* indices of the host's AudioParam.value readings
ReadingIds == {1, 2}

\* ------------------------------------------- automatable-parameters tags

VOLUME == "VOLUME"
PAN_LEFT == "PAN_LEFT"
PAN_RIGHT == "PAN_RIGHT"
PITCH_UP == "PITCH_UP"
PITCH_DOWN == "PITCH_DOWN"
FILTER_ENABLED == "FILTER_ENABLED"
FILTER_LFO_ENABLED == "FILTER_LFO_ENABLED"
FILTER_FREQ == "FILTER_FREQ"
FILTER_Q == "FILTER_Q"
FILTER_LFO_SPEED == "FILTER_LFO_SPEED"
FILTER_LFO_DEPTH == "FILTER_LFO_DEPTH"
DELAY_ENABLED == "DELAY_ENABLED"
DELAY_TIME == "DELAY_TIME"
DELAY_FEEDBACK == "DELAY_FEEDBACK"
DELAY_CUTOFF == "DELAY_CUTOFF"
DELAY_OFFSET == "DELAY_OFFSET"
EXTERNAL_EVENT == "EXTERNAL_EVENT"
\* a tag that no case of the switch names
UNKNOWN_MODULE == "UNKNOWN_MODULE"

filterTypes == <<"off", "sine", "square", "sawtooth", "triangle">>

\* ------------------------------------------------------------ generators

OscillatorNode == "OscillatorNode"
AudioBufferSourceNode == "AudioBufferSourceNode"
\* any other generator object (neither instanceof test succeeds)
OtherNode == "OtherNode"
Generators == {OscillatorNode, AudioBufferSourceNode, OtherNode}

\* --------------------------------------------------------------- controls

\* per voice: voice.gain.gain, generator.frequency, generator.playbackRate
VoiceParams == {"gain", "frequency", "playbackRate"}
\* per instrument: modules.panner.pan and the filter module's params
SharedParams == {"pan", "filter.frequency", "filter.Q", "lfo.frequency", "lfoAmp.gain"}
Controls == (VoiceParams \X Voices) \cup (SharedParams \X {0})

\* the AudioParam calls the code issues
cancelScheduledValues(t) == [op |-> "cancelScheduledValues", value |-> 0, time |-> t]
setValueAtTime(x, t) == [op |-> "setValueAtTime", value |-> x, time |-> t]
linearRampToValueAtTime(x, t) == [op |-> "linearRampToValueAtTime", value |-> x, time |-> t]

\* unit of the oscillator frequency control: tmp = f + f / 1200, times
\* value / 100, halved when going down
PitchUnit == 240000

\* param.value as the host reports it at the call, in the control's unit
Reading(c, r) ==
    CASE c[1] = "gain" -> 40 * r
      [] c[1] = "frequency" -> PitchUnit * 110 * r
      [] c[1] = "playbackRate" -> 100 * r
      [] c[1] = "pan" -> 30 * r - 60
      [] c[1] = "filter.frequency" -> 880 * r * 100
      [] c[1] = "filter.Q" -> 500 * r
      [] c[1] = "lfo.frequency" -> 50 * r
      [] OTHER -> 4400 * r

\* ----------------------------------------------------------------- state

VARIABLES
    song,       \* the kinds of automation events the song holds
    config,     \* the Config constants the appliers read
    voices,     \* instrumentEvents: per slot, the live voice (or none)
    modules,    \* INSTRUMENT_MODULES: filter and delay module state
    instrument, \* INSTRUMENT: instrument.filter.lfoType
    log,        \* per control, the AudioParam calls of the last dispatch
    routing,    \* the applyRouting calls of the last dispatch
    timers,     \* createTimer registrations, per slot
    callbacks,  \* per slot, the values eventCallback was invoked with
    last        \* the last step: the operation and its arguments

vars == <<song, config, voices, modules, instrument, log, routing, timers, callbacks, last>>

\* Config, in the units above; MIN_DELAY_OFFSET in 1/100
ConfigChoices ==
    { [MAX_FILTER_FREQ |-> 20000, MAX_FILTER_Q |-> 40, MAX_FILTER_LFO_SPEED |-> 25,
       MAX_FILTER_LFO_DEPTH |-> 100, MAX_DELAY_CUTOFF |-> 20000, MIN_DELAY_OFFSET |-> -50],
      [MAX_FILTER_FREQ |-> 12000, MAX_FILTER_Q |-> 30, MAX_FILTER_LFO_SPEED |-> 10,
       MAX_FILTER_LFO_DEPTH |-> 50, MAX_DELAY_CUTOFF |-> 8000, MIN_DELAY_OFFSET |-> -25] }

\* only the filter and delay appliers read Config
SongConfigs(s) ==
    IF s \in {"params", "delay"}
    THEN ConfigChoices
    ELSE {c \in ConfigChoices : c.MAX_FILTER_LFO_DEPTH = 100}

NoVoice == [active |-> FALSE, generator |-> OtherNode, frequency |-> 0, gliding |-> FALSE]
NoLog == [c \in Controls |-> <<>>]
\* a timer slot: state is "free", "pending" or "fired"; value is event.mp.value
\* of the event the timer's closure refers to, dispatched is what that value
\* was when the event was dispatched
NoTimer == [state |-> "free", time |-> 0, value |-> 0, dispatched |-> 0]

\* the arguments of one applyModuleParamChange call
Call(m, x, g, len, t, cb, r) ==
    [op |-> "applyModuleParamChange", module |-> m, value |-> x, glide |-> g,
     mpLength |-> len, startTime |-> t, callback |-> cb, reading |-> r, slot |-> 0]
Step(name, v) ==
    [op |-> name, module |-> "", value |-> 0, glide |-> FALSE,
     mpLength |-> 0, startTime |-> 0, callback |-> FALSE, reading |-> 0, slot |-> v]

InitState ==
    /\ config \in SongConfigs(song)
    /\ voices = [v \in Voices |-> NoVoice]
    /\ modules = [filterEnabled |-> FALSE, delayEnabled |-> FALSE,
                  delay |-> [delay |-> 50, feedback |-> 0, cutoff |-> 0,
                             offset |-> config.MIN_DELAY_OFFSET + 50]]
    /\ instrument = [lfoType |-> 0]
    /\ log = NoLog
    /\ routing = <<>>
    /\ timers = [i \in TimerIds |-> NoTimer]
    /\ callbacks = [i \in TimerIds |-> <<>>]
    /\ last = Step("init", 0)

\* ------------------------------------------------- scheduleParameterChange

\* scheduleParameterChange testing only whether a data object was passed, not
\* its gliding flag: every call with data starts afresh
scheduleParameterChange_IgnoresGliding(paramValue, value, startTimeInSeconds, durationInSeconds, doGlide, hasData, gliding) ==
    LET fresh == (~doGlide) \/ hasData
        first == IF fresh
                 THEN << cancelScheduledValues(startTimeInSeconds),
                         setValueAtTime(IF doGlide THEN paramValue ELSE value, startTimeInSeconds) >>
                 ELSE << >>
        second == IF doGlide
                  THEN << linearRampToValueAtTime(value, startTimeInSeconds + durationInSeconds) >>
                  ELSE << >>
    IN  [ops |-> first \o second,
         gliding |-> IF doGlide /\ hasData THEN TRUE ELSE gliding]

\* scheduleParameterChange setting the target value at the start time even
\* when it glides, so that the ramp has nothing left to cover
scheduleParameterChange_SetsTarget(paramValue, value, startTimeInSeconds, durationInSeconds, doGlide, hasData, gliding) ==
    LET fresh == (~doGlide) \/ (hasData /\ ~gliding)
        first == IF fresh
                 THEN << cancelScheduledValues(startTimeInSeconds),
                         setValueAtTime(value, startTimeInSeconds) >>
                 ELSE << >>
        second == IF doGlide
                  THEN << linearRampToValueAtTime(value, startTimeInSeconds + durationInSeconds) >>
                  ELSE << >>
    IN  [ops |-> first \o second,
         gliding |-> IF doGlide /\ hasData THEN TRUE ELSE gliding]

\* The calls issued on param and the value of data.gliding afterwards.
\* paramValue is param.value; hasData is whether a data object was passed;
\* gliding is data.gliding before the call.
scheduleParameterChange(paramValue, value, startTimeInSeconds, durationInSeconds, doGlide, hasData, gliding) ==
    LET fresh == (~doGlide) \/ (hasData /\ ~gliding)
        first == IF fresh
                 THEN << cancelScheduledValues(startTimeInSeconds),
                         setValueAtTime(IF doGlide THEN paramValue ELSE value, startTimeInSeconds) >>
                 ELSE << >>
        second == IF doGlide
                  THEN << linearRampToValueAtTime(value, startTimeInSeconds + durationInSeconds) >>
                  ELSE << >>
    IN  [ops |-> first \o second,
         gliding |-> IF doGlide /\ hasData THEN TRUE ELSE gliding]

\* ------------------------------------------------------------ the voices

\* a note starts: the sequencer adds a voice to instrumentEvents
NoteOn(v, gen, f) ==
    /\ ~voices[v].active
    /\ voices' = [voices EXCEPT ![v] =
            [active |-> TRUE, generator |-> gen, frequency |-> f, gliding |-> FALSE]]
    /\ log' = NoLog
    /\ routing' = <<>>
    /\ last' = Step("noteOn", v)
    /\ UNCHANGED <<config, modules, instrument, timers, callbacks>>

\* a note has decayed: the sequencer removes its voice
NoteOff(v) ==
    /\ voices[v].active
    /\ voices' = [voices EXCEPT ![v] = NoVoice]
    /\ log' = NoLog
    /\ routing' = <<>>
    /\ last' = Step("noteOff", v)
    /\ UNCHANGED <<config, modules, instrument, timers, callbacks>>

\* processVoices(instrumentEvents, fn): the voices fn is applied to
processVoices == {v \in Voices : voices[v].active}

\* ------------------------------------------------------- the appliers

\* the target without the division by 100
VolumeTarget_Unscaled(value) == 100 * value

VolumeTarget(value) == value

\* one gliding flag kept for the whole list of voices instead of one per voice
applyVolumeEnvelope_SharedFlag(call) ==
    LET target == VolumeTarget(call.value)
        shared == \E w \in processVoices : voices[w].gliding
        res(v) == scheduleParameterChange(Reading(<<"gain", v>>, call.reading), target,
                      call.startTime, call.mpLength, call.glide, TRUE, shared)
    IN  /\ voices' = [v \in Voices |->
                IF v \in processVoices
                THEN [voices[v] EXCEPT !.gliding = res(v).gliding]
                ELSE voices[v]]
        /\ log' = [c \in Controls |->
                IF c[1] = "gain" /\ c[2] \in processVoices THEN res(c[2]).ops ELSE <<>>]
        /\ routing' = <<>>
        /\ UNCHANGED <<config, modules, instrument, timers, callbacks>>

applyVolumeEnvelope(call) ==
    LET target == VolumeTarget(call.value)
        res(v) == scheduleParameterChange(Reading(<<"gain", v>>, call.reading), target,
                      call.startTime, call.mpLength, call.glide, TRUE, voices[v].gliding)
    IN  /\ voices' = [v \in Voices |->
                IF v \in processVoices
                THEN [voices[v] EXCEPT !.gliding = res(v).gliding]
                ELSE voices[v]]
        /\ log' = [c \in Controls |->
                IF c[1] = "gain" /\ c[2] \in processVoices THEN res(c[2]).ops ELSE <<>>]
        /\ routing' = <<>>
        /\ UNCHANGED <<config, modules, instrument, timers, callbacks>>

\* the downward target without the halving: the mirror image of the upward one
OscillatorTarget_Mirrored(frequency, value, goingUp) ==
    LET tmp == 1200 * frequency + frequency
        target == tmp * value
    IN  IF goingUp
        THEN (PitchUnit \div 120000) * target + PitchUnit * frequency
        ELSE PitchUnit * frequency - (PitchUnit \div 120000) * target

\* the target of an oscillator voice, in 1/PitchUnit Hz
OscillatorTarget(frequency, value, goingUp) ==
    LET tmp == 1200 * frequency + frequency    \* tmp, in 1/1200 Hz
        target == tmp * value                   \* tmp * (value / 100), in 1/120000 Hz
    IN  IF goingUp
        THEN (PitchUnit \div 120000) * target + PitchUnit * frequency
        ELSE PitchUnit * frequency - target

\* the sample-playback target taken from the nominal rate 1.0 instead of the
\* rate as read
SampleTarget_FromNominalRate(playbackRate, value, goingUp) ==
    LET tmp == value
    IN  IF goingUp THEN 100 + tmp ELSE 100 - tmp

\* the target of a sample-playback voice, in 1/100
SampleTarget(playbackRate, value, goingUp) ==
    LET tmp == value
    IN  IF goingUp THEN playbackRate + tmp ELSE playbackRate - tmp

\* the control a pitch event schedules for voice v, if any
RateControl(v) ==
    CASE voices[v].generator = OscillatorNode -> <<"frequency", v>>
      [] voices[v].generator = AudioBufferSourceNode -> <<"playbackRate", v>>
      [] OTHER -> <<"none", v>>

\* applyPitchShift marking every voice of the list as gliding, whatever its
\* generator
applyPitchShift_FlagsEveryVoice(call) ==
    LET goingUp == (call.module = PITCH_UP)
        pitched == {v \in processVoices :
                        voices[v].generator \in {OscillatorNode, AudioBufferSourceNode}}
        target(v) == IF voices[v].generator = OscillatorNode
                     THEN OscillatorTarget(voices[v].frequency, call.value, goingUp)
                     ELSE SampleTarget(Reading(<<"playbackRate", v>>, call.reading),
                                       call.value, goingUp)
        res(v) == scheduleParameterChange(Reading(RateControl(v), call.reading), target(v),
                      call.startTime, call.mpLength, call.glide, TRUE, voices[v].gliding)
    IN  /\ voices' = [v \in Voices |->
                IF v \in processVoices
                THEN [voices[v] EXCEPT !.gliding = (@ \/ call.glide)]
                ELSE voices[v]]
        /\ log' = [c \in Controls |->
                IF c[2] \in pitched /\ c = RateControl(c[2]) THEN res(c[2]).ops ELSE <<>>]
        /\ routing' = <<>>
        /\ UNCHANGED <<config, modules, instrument, timers, callbacks>>

\* applyPitchShift tracking its glides apart from those of the gain: the
\* rate control is never seen as gliding on account of the voice's flag
applyPitchShift_FreshData(call) ==
    LET goingUp == (call.module = PITCH_UP)
        pitched == {v \in processVoices :
                        voices[v].generator \in {OscillatorNode, AudioBufferSourceNode}}
        target(v) == IF voices[v].generator = OscillatorNode
                     THEN OscillatorTarget(voices[v].frequency, call.value, goingUp)
                     ELSE SampleTarget(Reading(<<"playbackRate", v>>, call.reading),
                                       call.value, goingUp)
        res(v) == scheduleParameterChange(Reading(RateControl(v), call.reading), target(v),
                      call.startTime, call.mpLength, call.glide, TRUE, FALSE)
    IN  /\ voices' = [v \in Voices |->
                IF v \in pitched
                THEN [voices[v] EXCEPT !.gliding = (@ \/ res(v).gliding)]
                ELSE voices[v]]
        /\ log' = [c \in Controls |->
                IF c[2] \in pitched /\ c = RateControl(c[2]) THEN res(c[2]).ops ELSE <<>>]
        /\ routing' = <<>>
        /\ UNCHANGED <<config, modules, instrument, timers, callbacks>>

applyPitchShift(call) ==
    LET goingUp == (call.module = PITCH_UP)
        pitched == {v \in processVoices :
                        voices[v].generator \in {OscillatorNode, AudioBufferSourceNode}}
        target(v) == IF voices[v].generator = OscillatorNode
                     THEN OscillatorTarget(voices[v].frequency, call.value, goingUp)
                     ELSE SampleTarget(Reading(<<"playbackRate", v>>, call.reading),
                                       call.value, goingUp)
        res(v) == scheduleParameterChange(Reading(RateControl(v), call.reading), target(v),
                      call.startTime, call.mpLength, call.glide, TRUE, voices[v].gliding)
    IN  /\ voices' = [v \in Voices |->
                IF v \in pitched
                THEN [voices[v] EXCEPT !.gliding = res(v).gliding]
                ELSE voices[v]]
        /\ log' = [c \in Controls |->
                IF c[2] \in pitched /\ c = RateControl(c[2]) THEN res(c[2]).ops ELSE <<>>]
        /\ routing' = <<>>
        /\ UNCHANGED <<config, modules, instrument, timers, callbacks>>

\* the sign test reversed: pan-left positive, pan-right negative
PanTarget_Swapped(module, value) ==
    LET target == value
    IN  IF module = PAN_LEFT THEN target ELSE -target

PanTarget(module, value) ==
    LET target == value
    IN  IF module = PAN_LEFT THEN -target ELSE target

applyPanning(call) ==
    LET res == scheduleParameterChange(Reading(<<"pan", 0>>, call.reading),
                   PanTarget(call.module, call.value),
                   call.startTime, call.mpLength, call.glide, FALSE, FALSE)
    IN  /\ log' = [c \in Controls |-> IF c = <<"pan", 0>> THEN res.ops ELSE <<>>]
        /\ routing' = <<>>
        /\ UNCHANGED <<config, voices, modules, instrument, timers, callbacks>>

\* the control a filter event schedules
FilterControl(module) ==
    CASE module = FILTER_FREQ -> <<"filter.frequency", 0>>
      [] module = FILTER_Q -> <<"filter.Q", 0>>
      [] module = FILTER_LFO_SPEED -> <<"lfo.frequency", 0>>
      [] OTHER -> <<"lfoAmp.gain", 0>>

\* the depth computed against a cutoff read once and kept
FilterTarget_CachedCutoff(module, value, cutoff) ==
    LET target == value
        cached == Reading(<<"filter.frequency", 0>>, 1) \div 100
    IN  CASE module = FILTER_FREQ -> target * config.MAX_FILTER_FREQ
          [] module = FILTER_Q -> target * config.MAX_FILTER_Q
          [] module = FILTER_LFO_SPEED -> target * config.MAX_FILTER_LFO_SPEED
          [] OTHER -> (target * config.MAX_FILTER_LFO_DEPTH) * cached

\* the target of a filter event; cutoff is module.filter.frequency.value in Hz
FilterTarget(module, value, cutoff) ==
    LET target == value
    IN  CASE module = FILTER_FREQ -> target * config.MAX_FILTER_FREQ
          [] module = FILTER_Q -> target * config.MAX_FILTER_Q
          [] module = FILTER_LFO_SPEED -> target * config.MAX_FILTER_LFO_SPEED
          [] OTHER -> (target * config.MAX_FILTER_LFO_DEPTH) * cutoff

\* module.filter.frequency.value at the call, in Hz
Cutoff(r) == Reading(<<"filter.frequency", 0>>, r) \div 100

applyFilter(call) ==
    LET c0 == FilterControl(call.module)
        res == scheduleParameterChange(Reading(c0, call.reading),
                   FilterTarget(call.module, call.value, Cutoff(call.reading)),
                   call.startTime, call.mpLength, call.glide, FALSE, FALSE)
    IN  /\ log' = [c \in Controls |-> IF c = c0 THEN res.ops ELSE <<>>]
        /\ routing' = <<>>
        /\ UNCHANGED <<config, voices, modules, instrument, timers, callbacks>>

\* the field a delay event writes and the value written
DelayField(module) ==
    CASE module = DELAY_TIME -> "delay"
      [] module = DELAY_FEEDBACK -> "feedback"
      [] module = DELAY_CUTOFF -> "cutoff"
      [] OTHER -> "offset"

\* the offset written without Config.MIN_DELAY_OFFSET
DelayTarget_OffsetFromZero(module, value) ==
    LET target == value
    IN  CASE module = DELAY_TIME -> target
          [] module = DELAY_FEEDBACK -> target
          [] module = DELAY_CUTOFF -> target * config.MAX_DELAY_CUTOFF
          [] OTHER -> target

DelayTarget(module, value) ==
    LET target == value
    IN  CASE module = DELAY_TIME -> target
          [] module = DELAY_FEEDBACK -> target
          [] module = DELAY_CUTOFF -> target * config.MAX_DELAY_CUTOFF
          [] OTHER -> config.MIN_DELAY_OFFSET + target

applyDelay(call) ==
    /\ modules' = [modules EXCEPT
            !.delay[DelayField(call.module)] = DelayTarget(call.module, call.value)]
    /\ log' = NoLog
    /\ routing' = <<>>
    /\ UNCHANGED <<config, voices, instrument, timers, callbacks>>

\* ---------------------------------------------------------- toHex

(* A double in 0 .. 2^17 is kept exactly as four limbs of 17 bits,          *)
(* <<l1, l2, l3, l4>> standing for (l1 + l2*Limb + l3*Limb^2 + l4*Limb^3)   *)
(* / 2^51: l4 is the integer part, l3 l2 l1 the 51 fraction bits.          *)
Limb == 131072

\* floor(log2(n)) for n >= 1
Log2(n) == IF n < 2 THEN 0 ELSE IF n < 4 THEN 1 ELSE IF n < 8 THEN 2
           ELSE IF n < 16 THEN 3 ELSE IF n < 32 THEN 4 ELSE IF n < 64 THEN 5
           ELSE IF n < 128 THEN 6 ELSE IF n < 256 THEN 7 ELSE 8

\* limbs with l1 possibly equal to Limb or more: the carries propagated
Carry(x) ==
    LET c1 == x[1] \div Limb
        c2 == (x[2] + c1) \div Limb
        c3 == (x[3] + c2) \div Limb
    IN  << x[1] % Limb, (x[2] + c1) % Limb, (x[3] + c2) % Limb, x[4] + c3 >>

\* x rounded to the double nearest to it, ties to even: a double in
\* [2^e, 2^(e+1)) is a multiple of 2^(e-52), that is of 2^(e-1) units
RoundToDouble(x) ==
    IF x[4] < 2 THEN x
    ELSE LET s == Log2(x[4]) - 1
             ulp == 2 ^ s
             rem == x[1] % ulp
             odd == (x[1] \div ulp) % 2 = 1
             up == (2 * rem > ulp) \/ (2 * rem = ulp /\ odd)
         IN  IF rem = 0 THEN x
             ELSE IF up THEN Carry(<< x[1] - rem + ulp, x[2], x[3], x[4] >>)
             ELSE << x[1] - rem, x[2], x[3], x[4] >>

\* the double n / d for integers with 2 <= n / d < 4: long division, then
\* the quotient rounded at 2^-51, ties to even
FDiv(n, d) ==
    LET q4 == n \div d
        r4 == n % d
        q3 == (r4 * Limb) \div d
        r3 == (r4 * Limb) % d
        q2 == (r3 * Limb) \div d
        r2 == (r3 * Limb) % d
        q1 == (r2 * Limb) \div d
        r1 == (r2 * Limb) % d
        up == (2 * r1 > d) \/ (2 * r1 = d /\ q1 % 2 = 1)
    IN  Carry(<< q1 + (IF up THEN 1 ELSE 0), q2, q3, q4 >>)

\* the double product of the integer n (0 .. 127) and the double x
FMul(n, x) ==
    RoundToDouble(Carry(<< n * x[1], n * x[2], n * x[3], n * x[4] >>))

\* const RESOLUTION = 255 / 100
RESOLUTION == FDiv(255, 100)

\* Math.round: the nearest integer, a fraction of exactly 0.5 going up
MathRound(x) == IF 2 * x[3] >= Limb THEN x[4] + 1 ELSE x[4]

HexDigits == <<"0", "1", "2", "3", "4", "5", "6", "7", "8", "9", "a", "b", "c", "d", "e", "f">>

\* Number.prototype.toString( 16 ) of an integer n >= 0
RECURSIVE ToString16(_)
ToString16(n) ==
    IF n < 16 THEN << HexDigits[n + 1] >>
    ELSE ToString16(n \div 16) \o << HexDigits[(n % 16) + 1] >>

toHex(value) ==
    LET hex == ToString16(MathRound(FMul(value, RESOLUTION)))
    IN  IF Len(hex) = 1 THEN <<"0">> \o hex ELSE hex

\* the value of a hexadecimal digit
DigitValue(ch) == (CHOOSE i \in 1 .. 16 : HexDigits[i] = ch) - 1

\* parseInt( str, 16 ) of a string of hexadecimal digits after an optional 0x
RECURSIVE ParseDigits(_, _)
ParseDigits(str, acc) ==
    IF str = <<>> THEN acc
    ELSE ParseDigits(Tail(str), 16 * acc + DigitValue(Head(str)))

ParseInt16(str) ==
    IF Len(str) >= 2 /\ str[1] = "0" /\ str[2] = "x"
    THEN ParseDigits(SubSeq(str, 3, Len(str)), 0)
    ELSE ParseDigits(str, 0)

\* the argument eventCallback is invoked with: parseInt(`0x${toHex(value)}`, 16)
CallbackArgument(value) == ParseInt16(<<"0", "x">> \o toHex(value))

\* --------------------------------------------------- external events

\* createTimer( audioContext, time, fn ): a free slot holds the registration
createTimer(slot, time, value) ==
    timers' = [timers EXCEPT ![slot] =
        [state |-> "pending", time |-> time, value |-> value, dispatched |-> value]]

\* applyExternalEvent without the test of eventCallback
applyExternalEvent_NoCallbackTest(call) ==
    \E slot \in TimerIds :
        /\ timers[slot].state = "free"
        /\ \A j \in TimerIds : j < slot => timers[j].state # "free"
        /\ createTimer(slot, call.startTime, call.value)

applyExternalEvent(call) ==
    IF ~call.callback
    THEN UNCHANGED <<timers>>
    ELSE \E slot \in TimerIds :
            /\ timers[slot].state = "free"
            /\ \A j \in TimerIds : j < slot => timers[j].state # "free"
            /\ createTimer(slot, call.startTime, call.value)

\* a closure that captured event.mp.value when the event was dispatched
TimerFire_ValueAtDispatch(slot) ==
    /\ timers[slot].state = "pending"
    /\ callbacks' = [callbacks EXCEPT
            ![slot] = Append(@, CallbackArgument(timers[slot].dispatched))]
    /\ timers' = [timers EXCEPT ![slot] =
            [state |-> "fired", time |-> 0, value |-> 0, dispatched |-> @.dispatched]]
    /\ log' = NoLog
    /\ routing' = <<>>
    /\ last' = Step("timerFire", slot)
    /\ UNCHANGED <<config, voices, modules, instrument>>

\* the host's clock reaches the timer's time: the closure runs, once
TimerFire(slot) ==
    /\ timers[slot].state = "pending"
    /\ callbacks' = [callbacks EXCEPT
            ![slot] = Append(@, CallbackArgument(timers[slot].value))]
    /\ timers' = [timers EXCEPT ![slot] =
            [state |-> "fired", time |-> 0, value |-> 0, dispatched |-> @.dispatched]]
    /\ log' = NoLog
    /\ routing' = <<>>
    /\ last' = Step("timerFire", slot)
    /\ UNCHANGED <<config, voices, modules, instrument>>

\* the song is edited while the timer is pending: event.mp.value of the
\* event object the closure refers to is given another value
EditEvent(slot, value) ==
    /\ timers[slot].state = "pending"
    /\ timers[slot].value # value
    /\ timers' = [timers EXCEPT ![slot].value = value]
    /\ log' = NoLog
    /\ routing' = <<>>
    /\ last' = Step("editEvent", slot)
    /\ UNCHANGED <<config, voices, modules, instrument, callbacks>>

\* ------------------------------------------------------ the dispatcher

\* applyRouting(modules, output): the call is recorded with the module state
\* it is handed, as that state is at the call
applyRouting(mods, output) == [modules |-> mods, output |-> output]

\* rangeToIndex(filterTypes, value): some index of filterTypes
rangeToIndex(list, value) == 0 .. (Len(list) - 1)

DispatchExternal(call) ==
    /\ call.module = EXTERNAL_EVENT
    /\ applyExternalEvent(call)
    /\ log' = NoLog
    /\ routing' = <<>>
    /\ last' = call
    /\ UNCHANGED <<config, voices, modules, instrument, callbacks>>

DispatchVolume(call) ==
    /\ call.module = VOLUME
    /\ applyVolumeEnvelope(call)
    /\ last' = call

DispatchPanning(call) ==
    /\ call.module \in {PAN_LEFT, PAN_RIGHT}
    /\ applyPanning(call)
    /\ last' = call

DispatchPitch(call) ==
    /\ call.module \in {PITCH_UP, PITCH_DOWN}
    /\ applyPitchShift(call)
    /\ last' = call

\* the case rewiring only when the flag changes
DispatchFilterEnabled_RoutesOnChange(call) ==
    /\ call.module = FILTER_ENABLED
    /\ modules' = [modules EXCEPT !.filterEnabled = (call.value >= 50)]
    /\ routing' = IF modules' # modules THEN << applyRouting(modules', "output") >> ELSE <<>>
    /\ log' = NoLog
    /\ last' = call
    /\ UNCHANGED <<config, voices, instrument, timers, callbacks>>

DispatchFilterEnabled(call) ==
    /\ call.module = FILTER_ENABLED
    /\ modules' = [modules EXCEPT !.filterEnabled = (call.value >= 50)]
    /\ routing' = << applyRouting(modules', "output") >>
    /\ log' = NoLog
    /\ last' = call
    /\ UNCHANGED <<config, voices, instrument, timers, callbacks>>

DispatchFilterLfoEnabled(call) ==
    /\ call.module = FILTER_LFO_ENABLED
    /\ \E i \in rangeToIndex(filterTypes, call.value) :
            instrument' = [instrument EXCEPT !.lfoType = i]
    /\ routing' = << applyRouting(modules, "output") >>
    /\ log' = NoLog
    /\ last' = call
    /\ UNCHANGED <<config, voices, modules, timers, callbacks>>

DispatchFilter(call) ==
    /\ call.module \in {FILTER_FREQ, FILTER_Q, FILTER_LFO_SPEED, FILTER_LFO_DEPTH}
    /\ applyFilter(call)
    /\ last' = call

DispatchDelayEnabled(call) ==
    /\ call.module = DELAY_ENABLED
    /\ modules' = [modules EXCEPT !.delayEnabled = (call.value >= 50)]
    /\ routing' = << applyRouting(modules', "output") >>
    /\ log' = NoLog
    /\ last' = call
    /\ UNCHANGED <<config, voices, instrument, timers, callbacks>>

\* the delay-parameter case rewiring the routing as the enable cases do
DispatchDelay_Rewires(call) ==
    /\ call.module \in {DELAY_TIME, DELAY_FEEDBACK, DELAY_CUTOFF, DELAY_OFFSET}
    /\ modules' = [modules EXCEPT
            !.delay[DelayField(call.module)] = DelayTarget(call.module, call.value)]
    /\ log' = NoLog
    /\ routing' = << applyRouting(modules', "output") >>
    /\ last' = call
    /\ UNCHANGED <<config, voices, instrument, timers, callbacks>>

DispatchDelay(call) ==
    /\ call.module \in {DELAY_TIME, DELAY_FEEDBACK, DELAY_CUTOFF, DELAY_OFFSET}
    /\ applyDelay(call)
    /\ last' = call

\* a switch whose default rewires the routing
DispatchOther_Rewires(call) ==
    /\ call.module = UNKNOWN_MODULE
    /\ log' = NoLog
    /\ routing' = << applyRouting(modules, "output") >>
    /\ last' = call
    /\ UNCHANGED <<config, voices, modules, instrument, timers, callbacks>>

\* no case of the switch matches: the function returns
DispatchOther(call) ==
    /\ call.module = UNKNOWN_MODULE
    /\ log' = NoLog
    /\ routing' = <<>>
    /\ last' = call
    /\ UNCHANGED <<config, voices, modules, instrument, timers, callbacks>>

\* the switch of applyModuleParamChange
applyModuleParamChange(call) ==
    \/ DispatchVolume(call)
    \/ DispatchPanning(call)
    \/ DispatchPitch(call)
    \/ DispatchFilterEnabled(call)
    \/ DispatchFilterLfoEnabled(call)
    \/ DispatchFilter(call)
    \/ DispatchDelayEnabled(call)
    \/ DispatchDelay(call)
    \/ DispatchExternal(call)
    \/ DispatchOther(call)

\* ------------------------------------------------------ specification

(* The song decides which automation events the sequencer dispatches.  The *)
(* groups of events act on disjoint parts of the state, and a behaviour    *)
(* plays one song: its events are drawn from SongCalls(song).  The "mixed" *)
(* song holds events of every tag, with one voice slot in use.             *)
Songs == {"voices", "params", "routing", "delay", "external", "hex", "mixed"}

UnknownCalls ==
    { Call(UNKNOWN_MODULE, x, g, 1, 1, cb, 1) : x \in {50}, g \in BOOLEAN, cb \in BOOLEAN }

VoiceCalls ==
    { Call(m, x, g, 1, 1, FALSE, r) :
        m \in {VOLUME, PITCH_UP, PITCH_DOWN}, x \in Values, g \in BOOLEAN, r \in ReadingIds }

ParamCalls ==
    { Call(m, x, g, len, t, FALSE, r) :
        m \in {PAN_LEFT, PAN_RIGHT, FILTER_FREQ, FILTER_Q, FILTER_LFO_SPEED, FILTER_LFO_DEPTH},
        x \in Values, g \in BOOLEAN, len \in MpLengths, t \in StartTimes, r \in ReadingIds }

RoutingCalls ==
    { Call(m, x, g, 1, 1, FALSE, 1) :
        m \in {FILTER_ENABLED, FILTER_LFO_ENABLED, DELAY_ENABLED},
        x \in EnableValues, g \in BOOLEAN }

DelayCalls ==
    { Call(m, x, g, len, t, FALSE, 1) :
        m \in {DELAY_TIME, DELAY_FEEDBACK, DELAY_CUTOFF, DELAY_OFFSET},
        x \in Values, g \in BOOLEAN, len \in MpLengths, t \in StartTimes }

\* external events are dispatched with value 0 or 100; an edit made while
\* the timer is pending gives the event any of Values (applyExternalEvent
\* does not read mp.glide; the "mixed" song dispatches one with glide)
ExternalCalls ==
    { Call(EXTERNAL_EVENT, x, FALSE, 1, t, cb, 1) :
        x \in {0, 100}, t \in StartTimes, cb \in BOOLEAN }

HexCalls == { Call(EXTERNAL_EVENT, x, FALSE, 1, 1, TRUE, 1) : x \in HexValues }

\* one gliding event of each tag, and the two events that disable a module
MixedCalls ==
    { Call(m, 100, TRUE, 1, 1, TRUE, 1) :
        m \in {VOLUME, PAN_LEFT, PAN_RIGHT, PITCH_UP, PITCH_DOWN, FILTER_ENABLED,
               FILTER_LFO_ENABLED, FILTER_FREQ, FILTER_Q, FILTER_LFO_SPEED,
               FILTER_LFO_DEPTH, DELAY_ENABLED, DELAY_FEEDBACK, EXTERNAL_EVENT} }
    \cup { Call(m, 50, TRUE, 1, 1, TRUE, 1) : m \in {DELAY_TIME, DELAY_OFFSET} }
    \cup { Call(m, 0, FALSE, 1, 1, TRUE, 1) :
              m \in {FILTER_ENABLED, DELAY_ENABLED, DELAY_CUTOFF} }

SongCalls(s) ==
    CASE s = "voices" -> VoiceCalls \cup UnknownCalls
      [] s = "params" -> ParamCalls \cup UnknownCalls
      [] s = "routing" -> RoutingCalls \cup UnknownCalls
      [] s = "delay" -> DelayCalls \cup UnknownCalls
      [] s = "external" -> ExternalCalls \cup UnknownCalls
      [] s = "mixed" -> MixedCalls
      [] OTHER -> HexCalls

\* the "hex" song plays one external event of any value in 0 .. 100 at a time
SongReady ==
    song = "hex" => \A slot \in TimerIds : timers[slot].state = "free"

Init ==
    /\ song \in Songs
    /\ InitState

Next ==
    \/ \E call \in SongCalls(song) :
            /\ SongReady
            /\ applyModuleParamChange(call)
            /\ UNCHANGED song
    \/ \E v \in Voices, gen \in Generators, f \in Frequencies :
            /\ song = "voices" \/ (song = "mixed" /\ v = 1 /\ gen = OscillatorNode)
            /\ gen # OscillatorNode \/ song = "mixed" => f = 440
            /\ NoteOn(v, gen, f)
            /\ UNCHANGED song
    \/ \E v \in Voices : NoteOff(v) /\ UNCHANGED song
    \/ \E slot \in TimerIds : TimerFire(slot) /\ UNCHANGED song
    \/ \E slot \in TimerIds, x \in Values :
            /\ song = "external"
            /\ EditEvent(slot, x)
            /\ UNCHANGED song

Spec == Init /\ [][Next]_vars

\* ------------------------------------------------------------ properties

IsCall(l) == l.op = "applyModuleParamChange"
OpNames(ops) == [i \in 1 .. Len(ops) |-> ops[i].op]
FreshGlide == <<"cancelScheduledValues", "setValueAtTime", "linearRampToValueAtTime">>
RampOnly == <<"linearRampToValueAtTime">>
SnapOnly == <<"cancelScheduledValues", "setValueAtTime">>
\* the value a sequence of calls brings the control to
TargetOf(ops) == ops[Len(ops)].value

\* the control of voice v that the call schedules with v as its data object
VoiceControl(call, v) ==
    CASE call.module = VOLUME -> <<"gain", v>>
      [] call.module \in {PITCH_UP, PITCH_DOWN} -> RateControl(v)
      [] OTHER -> <<"none", v>>

\* the call schedules a control of voice v
Schedules(call, v) ==
    /\ IsCall(call)
    /\ voices[v].active
    /\ VoiceControl(call, v) \in Controls

\* C1: of two glide calls in succession on the same control with the same
\* voice as data, whose gliding flag starts false, the first issues cancel,
\* set-value, ramp and leaves gliding true; the second issues the ramp alone
\* and gliding stays true.
C1_GlideContinuation ==
    [][ \A v \in Voices :
          (Schedules(last', v) /\ last'.glide) =>
            LET c == VoiceControl(last', v)
            IN  /\ ~voices[v].gliding =>
                      /\ OpNames(log'[c]) = FreshGlide
                      /\ voices'[v].gliding
                /\ ( /\ IsCall(last) /\ last.glide
                     /\ OpNames(log[c]) = FreshGlide ) =>
                      /\ OpNames(log'[c]) = RampOnly
                      /\ voices'[v].gliding
      ]_vars

\* a second glide volume event has just ramped a voice's gain that the
\* first one had started to glide
C1_Witness ==
    \E v \in Voices :
        /\ IsCall(last) /\ last.module = VOLUME /\ last.glide
        /\ voices[v].active /\ voices[v].gliding
        /\ OpNames(log[<<"gain", v>>]) = RampOnly

\* C2: after a volume or pitch event has been applied to a voice, the
\* voice's gliding flag is false if the event was not a glide and true if
\* it was.
C2_GlidingFollowsGlide ==
    \A v \in Voices :
        ( /\ last.module \in {VOLUME, PITCH_UP, PITCH_DOWN}
          /\ Schedules(last, v) ) =>
            voices[v].gliding = last.glide

\* the shared control a pan or filter event schedules
SharedControl(module) ==
    IF module \in {PAN_LEFT, PAN_RIGHT} THEN <<"pan", 0>> ELSE FilterControl(module)

SharedModules ==
    {PAN_LEFT, PAN_RIGHT, FILTER_FREQ, FILTER_Q, FILTER_LFO_SPEED, FILTER_LFO_DEPTH}

\* C3: every pan and filter-parameter event, glide or not, first cancels
\* the scheduled values of its control from startTime and sets a value at
\* startTime, before any ramp.
C3_SharedStartFresh ==
    (IsCall(last) /\ last.module \in SharedModules) =>
        LET ops == log[SharedControl(last.module)]
        IN  /\ Len(ops) >= 2
            /\ ops[1] = cancelScheduledValues(last.startTime)
            /\ ops[2].op = "setValueAtTime"
            /\ ops[2].time = last.startTime

\* C4: a filter-enabled or delay-enabled event sets the flag to (value >= 50)
\* and makes exactly one routing call in its dispatch, with the module state
\* that holds the flag as updated and with the output node.
C4_EnableRoutesOnce ==
    /\ (IsCall(last) /\ last.module = FILTER_ENABLED) =>
            /\ modules.filterEnabled = (last.value >= 50)
            /\ routing = << [modules |-> modules, output |-> "output"] >>
    /\ (IsCall(last) /\ last.module = DELAY_ENABLED) =>
            /\ modules.delayEnabled = (last.value >= 50)
            /\ routing = << [modules |-> modules, output |-> "output"] >>

\* a delay-enabled event of value 50 has just been routed while the filter
\* was enabled by an earlier event
C4_Witness ==
    /\ IsCall(last) /\ last.module = DELAY_ENABLED /\ last.value = 50
    /\ modules.delayEnabled /\ modules.filterEnabled
    /\ Len(routing) = 1
    /\ routing[1].modules.delayEnabled

KnownModules ==
    {VOLUME, PAN_LEFT, PAN_RIGHT, PITCH_UP, PITCH_DOWN, FILTER_ENABLED,
     FILTER_LFO_ENABLED, FILTER_FREQ, FILTER_Q, FILTER_LFO_SPEED, FILTER_LFO_DEPTH,
     DELAY_ENABLED, DELAY_TIME, DELAY_FEEDBACK, DELAY_CUTOFF, DELAY_OFFSET,
     EXTERNAL_EVENT}

\* C5: a dispatch whose module tag is none of the enumerated tags issues no
\* call on any control, makes no routing call, creates no timer, and leaves
\* the voices, the module state and the callback's record unchanged.
C5_UnknownModuleNoOp ==
    [][ (IsCall(last') /\ last'.module \notin KnownModules) =>
            /\ log' = NoLog
            /\ routing' = <<>>
            /\ UNCHANGED <<config, voices, modules, instrument, timers, callbacks>>
      ]_vars

\* an event of unknown tag has just been dispatched while a voice glides
C5_Witness ==
    /\ IsCall(last) /\ last.module = UNKNOWN_MODULE
    /\ \E v \in Voices : voices[v].active /\ voices[v].gliding
    /\ log = NoLog /\ routing = <<>>

DelayModules == {DELAY_TIME, DELAY_FEEDBACK, DELAY_CUTOFF, DELAY_OFFSET}

\* C6: a delay event writes exactly one field of the delay module, with
\* time = value/100, feedback = value/100, cutoff = value/100 * MAX_DELAY_CUTOFF,
\* offset = MIN_DELAY_OFFSET + value/100, whatever its glide flag, duration
\* and start time; the other fields keep their values and no control is
\* scheduled.
C6_DelayWritesOneField ==
    [][ (IsCall(last') /\ last'.module \in DelayModules) =>
            LET x == last'.value
                written ==
                    CASE last'.module = DELAY_TIME -> [modules.delay EXCEPT !.delay = x]
                      [] last'.module = DELAY_FEEDBACK -> [modules.delay EXCEPT !.feedback = x]
                      [] last'.module = DELAY_CUTOFF ->
                            [modules.delay EXCEPT !.cutoff = x * config.MAX_DELAY_CUTOFF]
                      [] OTHER ->
                            [modules.delay EXCEPT !.offset = config.MIN_DELAY_OFFSET + x]
            IN  /\ modules' = [modules EXCEPT !.delay = written]
                /\ log' = NoLog
                /\ UNCHANGED <<config, voices, instrument>>
      ]_vars

\* a gliding delay-offset event of duration 2 at start time 2 has written
\* the offset, after an earlier event wrote the delay time
C6_Witness ==
    /\ IsCall(last) /\ last.module = DELAY_OFFSET /\ last.value = 100
    /\ last.glide /\ last.mpLength = 2 /\ last.startTime = 2
    /\ modules.delay.offset = config.MIN_DELAY_OFFSET + 100
    /\ modules.delay.delay = 0
    /\ log = NoLog

\* C7: an external event without a callback creates no timer and invokes
\* nothing; with a callback its dispatch creates exactly one timer, for
\* startTime, and does not invoke the callback; the callback is invoked only
\* by a timer firing, once per timer.
C7_ExternalTimer ==
    /\ [](\A slot \in TimerIds :
            Len(callbacks[slot]) = IF timers[slot].state = "fired" THEN 1 ELSE 0)
    /\ [][ /\ (IsCall(last') /\ last'.module = EXTERNAL_EVENT) =>
                /\ callbacks' = callbacks
                /\ ~last'.callback => timers' = timers
                /\ last'.callback =>
                      \E slot \in TimerIds :
                          /\ timers[slot].state = "free"
                          /\ timers' = [timers EXCEPT ![slot] =
                                [state |-> "pending", time |-> last'.startTime,
                                 value |-> last'.value, dispatched |-> last'.value]]
           /\ callbacks' # callbacks =>
                /\ last'.op = "timerFire"
                /\ \E slot \in TimerIds :
                      /\ timers[slot].state = "pending"
                      /\ timers'[slot].state = "fired"
                      /\ Len(callbacks'[slot]) = Len(callbacks[slot]) + 1
                      /\ \A j \in TimerIds \ {slot} : callbacks'[j] = callbacks[j]
         ]_vars

\* one timer has fired and invoked the callback once while the timer of a
\* later external event is pending, and an event without callback was
\* dispatched last
C7_Witness ==
    /\ IsCall(last) /\ last.module = EXTERNAL_EVENT /\ ~last.callback
    /\ \E s1, s2 \in TimerIds :
          /\ timers[s1].state = "fired" /\ Len(callbacks[s1]) = 1
          /\ timers[s2].state = "pending" /\ callbacks[s2] = <<>>
          /\ timers[s2].time = 2

\* round(value * 2.55) over the reals, a half going up
RoundedByte(value) == (255 * value + 50) \div 100

\* C8: the callback receives round(value * 2.55), in 0 .. 255, for every
\* value in 0 .. 100: 128 (hex "80") for 50, 255 for 100, 0 for 0; and the
\* two-digit string of toHex reparses to the integer that was rounded.
C8_CallbackReceivesRoundedByte ==
    [][ \A slot \in TimerIds :
          (timers[slot].state = "pending" /\ timers'[slot].state = "fired") =>
            LET x == timers[slot].value
                got == callbacks'[slot][Len(callbacks'[slot])]
            IN  /\ got = RoundedByte(x)
                /\ got \in 0 .. 255
                /\ x = 50 => (toHex(x) = <<"8", "0">> /\ got = 128)
                /\ x = 100 => got = 255
                /\ x = 0 => got = 0
                /\ Len(toHex(x)) = 2
                /\ ParseInt16(toHex(x)) = got
      ]_vars

PitchModules == {PITCH_UP, PITCH_DOWN}

\* this step and the one before are a pitch-up and a pitch-down event (in
\* either order) of equal value, with equal readings, both applied to voice v
PitchPair(v) ==
    /\ IsCall(last) /\ IsCall(last')
    /\ {last.module, last'.module} = PitchModules
    /\ last.value = last'.value
    /\ last.reading = last'.reading
    /\ Schedules(last, v)

\* the upward and the downward target of the pair, and the voice's
\* reference: its base frequency or its playback rate as read
PairUp(v) ==
    IF last.module = PITCH_UP THEN TargetOf(log[RateControl(v)])
                              ELSE TargetOf(log'[RateControl(v)])
PairDown(v) ==
    IF last.module = PITCH_DOWN THEN TargetOf(log[RateControl(v)])
                                ELSE TargetOf(log'[RateControl(v)])
PitchReference(v) ==
    IF voices[v].generator = OscillatorNode
    THEN PitchUnit * voices[v].frequency
    ELSE Reading(RateControl(v), last.reading)

\* C9 as stated: a pitch-up and a pitch-down event of equal value on the same
\* voice have different targets that are not mirror images around the
\* voice's reference, for oscillator and for sample-playback voices.
C9_UpDownNeverMirrored ==
    [][ \A v \in Voices :
          PitchPair(v) =>
            /\ PairUp(v) # PairDown(v)
            /\ PairUp(v) - PitchReference(v) # PitchReference(v) - PairDown(v)
      ]_vars

\* C9 as amended: for an oscillator voice and a value above 0 the targets
\* differ and are not mirror images around the base frequency (the upward
\* offset is twice the downward one); for a sample-playback voice the targets
\* are rate + value/100 and rate - value/100, mirror images around the rate
\* as read; for value 0 both targets are the reference.
C9_UpDownAsymmetricForOscillators ==
    [][ \A v \in Voices :
          PitchPair(v) =>
            LET up == PairUp(v) - PitchReference(v)
                down == PitchReference(v) - PairDown(v)
            IN  /\ voices[v].generator = OscillatorNode =>
                      /\ up = 2 * down
                      /\ last.value > 0 => (down > 0 /\ up # down /\ PairUp(v) # PairDown(v))
                      /\ last.value = 0 => (up = 0 /\ down = 0)
                /\ voices[v].generator = AudioBufferSourceNode =>
                      /\ up = last.value
                      /\ down = last.value
      ]_vars

\* a pitch-down event of value 50 has just been applied to an oscillator
\* voice of 440 Hz and to a sample-playback voice
C9_Witness ==
    /\ IsCall(last) /\ last.module = PITCH_DOWN /\ last.value = 50 /\ ~last.glide
    /\ \E v, w \in Voices :
          /\ voices[v].active /\ voices[v].generator = OscillatorNode
          /\ voices[v].frequency = 440
          /\ OpNames(log[<<"frequency", v>>]) = SnapOnly
          /\ PitchUnit * 440 - TargetOf(log[<<"frequency", v>>]) = 1201 * 440 * 50
          /\ voices[w].active /\ voices[w].generator = AudioBufferSourceNode
          /\ TargetOf(log[<<"playbackRate", w>>])
                = Reading(<<"playbackRate", w>>, last.reading) - 50

\* this step and the one before are filter-lfo-depth events of equal value
\* between which the filter's cutoff has changed
DepthPair ==
    /\ IsCall(last) /\ IsCall(last')
    /\ last.module = FILTER_LFO_DEPTH /\ last'.module = FILTER_LFO_DEPTH
    /\ last.value = last'.value
    /\ Cutoff(last.reading) # Cutoff(last'.reading)

\* value/100 * MAX_FILTER_LFO_DEPTH / 100 * cutoff, in 1/10000
DepthOf(value, cutoff) == value * config.MAX_FILTER_LFO_DEPTH * cutoff

\* C10 as stated: two filter-lfo-depth events of identical value with the
\* cutoff changed between them yield different targets, each computed from
\* the cutoff as read at its call.
C10_DepthTargetsDiffer ==
    [][ DepthPair =>
            /\ TargetOf(log[<<"lfoAmp.gain", 0>>]) # TargetOf(log'[<<"lfoAmp.gain", 0>>])
            /\ TargetOf(log'[<<"lfoAmp.gain", 0>>])
                  = DepthOf(last'.value, Cutoff(last'.reading))
      ]_vars

\* C10 as amended: every filter-lfo-depth target is computed from the cutoff
\* as read at its call, and two such events of identical value above 0 with
\* the cutoff changed between them yield different targets (for value 0 both
\* targets are 0).
C10_DepthFollowsCurrentCutoff ==
    [][ /\ (IsCall(last') /\ last'.module = FILTER_LFO_DEPTH) =>
              TargetOf(log'[<<"lfoAmp.gain", 0>>])
                  = DepthOf(last'.value, Cutoff(last'.reading))
        /\ DepthPair =>
              /\ last.value > 0 =>
                    TargetOf(log[<<"lfoAmp.gain", 0>>]) # TargetOf(log'[<<"lfoAmp.gain", 0>>])
              /\ last.value = 0 =>
                    /\ TargetOf(log[<<"lfoAmp.gain", 0>>]) = 0
                    /\ TargetOf(log'[<<"lfoAmp.gain", 0>>]) = 0
      ]_vars

\* a filter-lfo-depth event of value 50 has been scheduled against the
\* second cutoff reading
C10_Witness ==
    /\ IsCall(last) /\ last.module = FILTER_LFO_DEPTH
    /\ last.value = 50 /\ last.reading = 2
    /\ log[<<"lfoAmp.gain", 0>>] # <<>>
    /\ TargetOf(log[<<"lfoAmp.gain", 0>>]) = DepthOf(50, Cutoff(2))
    /\ DepthOf(50, Cutoff(2)) # DepthOf(50, Cutoff(1))

\* the sequences of calls one scheduleParameterChange call can issue
OneCall == {SnapOnly, FreshGlide, RampOnly}

\* C11: for every value in 0 .. 100 a volume event schedules value/100 on the
\* gain control of every voice the iterator yields, by exactly one
\* scheduleParameterChange call per voice with that voice as data object
\* (the voice's own gliding flag decides the calls and is the flag set), and
\* on no other control.
C11_VolumeOnEveryVoice ==
    [][ (IsCall(last') /\ last'.module = VOLUME) =>
            /\ \A x \in HexValues : VolumeTarget(x) = x
            /\ \A v \in Voices :
                  LET ops == log'[<<"gain", v>>]
                  IN  IF voices[v].active
                      THEN /\ OpNames(ops) \in OneCall
                           /\ TargetOf(ops) = last'.value
                           /\ (OpNames(ops) = RampOnly) <=> (last'.glide /\ voices[v].gliding)
                           /\ voices'[v].gliding = (voices[v].gliding \/ last'.glide)
                      ELSE ops = <<>> /\ voices'[v] = voices[v]
            /\ \A c \in Controls : c[1] # "gain" => log'[c] = <<>>
            /\ routing' = <<>>
            /\ UNCHANGED <<modules, instrument, timers, callbacks>>
      ]_vars

\* a volume event of value 100 without glide has snapped the gain of every
\* voice slot, all of them live, to 1.0
C11_Witness ==
    /\ IsCall(last) /\ last.module = VOLUME /\ last.value = 100 /\ ~last.glide
    /\ \A v \in Voices :
          /\ voices[v].active
          /\ log[<<"gain", v>>]
                = << cancelScheduledValues(last.startTime), setValueAtTime(100, last.startTime) >>

\* C12: a pan event makes exactly one scheduling call, on the shared pan
\* control, with target -value/100 for pan-left and +value/100 for pan-right;
\* the target lies in [-1, 1]; value 100 gives -1.0 or +1.0 and value 0
\* gives 0 on either side.
C12_PanTarget ==
    /\ \A x \in HexValues :
          /\ PanTarget(PAN_LEFT, x) = -x /\ PanTarget(PAN_RIGHT, x) = x
          /\ PanTarget(PAN_LEFT, x) \in -100 .. 100
          /\ PanTarget(PAN_RIGHT, x) \in -100 .. 100
    /\ PanTarget(PAN_LEFT, 100) = -100 /\ PanTarget(PAN_RIGHT, 100) = 100
    /\ PanTarget(PAN_LEFT, 0) = 0 /\ PanTarget(PAN_RIGHT, 0) = 0
    /\ (IsCall(last) /\ last.module \in {PAN_LEFT, PAN_RIGHT}) =>
          LET ops == log[<<"pan", 0>>]
          IN  /\ OpNames(ops) \in OneCall
              /\ TargetOf(ops) = IF last.module = PAN_LEFT THEN -last.value ELSE last.value
              /\ TargetOf(ops) \in -100 .. 100
              /\ \A c \in Controls : c # <<"pan", 0>> => log[c] = <<>>

\* a pan-left event of value 100 has just set the pan control to -1.0
C12_Witness ==
    /\ IsCall(last) /\ last.module = PAN_LEFT /\ last.value = 100 /\ ~last.glide
    /\ log[<<"pan", 0>>]
          = << cancelScheduledValues(last.startTime), setValueAtTime(-100, last.startTime) >>

\* the controls a call schedules, and the target it passes for control c
ScheduledControls(call) ==
    {c \in Controls :
        \/ c[2] \in Voices /\ Schedules(call, c[2]) /\ c = VoiceControl(call, c[2])
        \/ call.module \in SharedModules /\ c = SharedControl(call.module)}

CallTarget(call, c) ==
    CASE call.module = VOLUME -> VolumeTarget(call.value)
      [] call.module \in PitchModules ->
            IF voices[c[2]].generator = OscillatorNode
            THEN OscillatorTarget(voices[c[2]].frequency, call.value, call.module = PITCH_UP)
            ELSE SampleTarget(Reading(c, call.reading), call.value, call.module = PITCH_UP)
      [] call.module \in {PAN_LEFT, PAN_RIGHT} -> PanTarget(call.module, call.value)
      [] OTHER -> FilterTarget(call.module, call.value, Cutoff(call.reading))

\* C13: for every combination of doGlide, presence of a data object and its
\* gliding flag, one scheduleParameterChange call issues cancel at startTime
\* then set-value at startTime exactly when doGlide is false or (data is
\* given and gliding is false), the value set being the control's current
\* value when doGlide is true and the target otherwise; then a ramp to the
\* target ending at startTime + duration exactly when doGlide is true; a call
\* with doGlide false issues no ramp and leaves the gliding flag as it was.
C13_ScheduleTruthTable ==
    [][ IsCall(last') =>
          \A c \in ScheduledControls(last') :
            LET doGlide == last'.glide
                hasData == c[2] \in Voices
                gliding == hasData /\ voices[c[2]].gliding
                start == last'.startTime
                target == CallTarget(last', c)
                ops == log'[c]
                fresh == (~doGlide) \/ (hasData /\ ~gliding)
                snaps == /\ Len(ops) >= 2
                         /\ ops[1] = cancelScheduledValues(start)
                         /\ ops[2] = setValueAtTime(
                                IF doGlide THEN Reading(c, last'.reading) ELSE target, start)
                ramps == /\ ops # <<>>
                         /\ ops[Len(ops)]
                                = linearRampToValueAtTime(target, start + last'.mpLength)
            IN  /\ fresh <=> snaps
                /\ doGlide <=> ramps
                /\ Len(ops) = (IF fresh THEN 2 ELSE 0) + (IF doGlide THEN 1 ELSE 0)
                /\ \A i \in 1 .. Len(ops) :
                      ops[i].op = "cancelScheduledValues" => i = 1
                /\ (~doGlide) =>
                      /\ \A i \in 1 .. Len(ops) : ops[i].op # "linearRampToValueAtTime"
                      /\ hasData => voices'[c[2]].gliding = voices[c[2]].gliding
      ]_vars

\* a call without glide has snapped the gain of a voice whose gliding flag
\* is true, and the flag is still true
C13_Witness ==
    /\ IsCall(last) /\ last.module = VOLUME /\ ~last.glide
    /\ \E v \in Voices :
          /\ voices[v].active /\ voices[v].gliding
          /\ OpNames(log[<<"gain", v>>]) = SnapOnly

\* C14: a filter-lfo-enabled event writes the new LFO type into the state
\* object that is handed to the routing collaborator: the one routing call of
\* the dispatch receives module state that reflects the new type, so that a
\* change of type shows as a change of the state handed over.
C14_RoutingSeesLfoType ==
    [][ (IsCall(last') /\ last'.module = FILTER_LFO_ENABLED) =>
            /\ Len(routing') = 1
            /\ instrument'.lfoType # instrument.lfoType =>
                  routing'[1].modules # modules
      ]_vars

\* C15: in one glide volume or pitch event over several live voices, a voice
\* whose gliding flag is true receives the ramp alone, a voice whose flag is
\* false receives cancel, set-value, ramp; the flag of every voice the event
\* schedules is true afterwards and no other voice changes.
C15_GlidingPerVoice ==
    [][ (IsCall(last') /\ last'.glide /\ last'.module \in {VOLUME, PITCH_UP, PITCH_DOWN}) =>
          \A v \in Voices :
            IF Schedules(last', v)
            THEN /\ voices[v].gliding => OpNames(log'[VoiceControl(last', v)]) = RampOnly
                 /\ ~voices[v].gliding => OpNames(log'[VoiceControl(last', v)]) = FreshGlide
                 /\ voices'[v] = [voices[v] EXCEPT !.gliding = TRUE]
            ELSE voices'[v] = voices[v]
      ]_vars

\* one glide volume event has ramped the gain of a voice that was gliding
\* and has started the glide of another, whose note began later
C15_Witness ==
    /\ IsCall(last) /\ last.module = VOLUME /\ last.glide
    /\ \E v, w \in Voices :
          /\ voices[v].active /\ voices[w].active
          /\ voices[v].gliding /\ voices[w].gliding
          /\ OpNames(log[<<"gain", v>>]) = RampOnly
          /\ OpNames(log[<<"gain", w>>]) = FreshGlide

\* C16: the pitch target of an oscillator voice is computed from its base
\* frequency f and the value only, f + f*(1 + 1/1200)*value/100 going up and
\* f - f*(1 + 1/1200)*value/100 / 2 going down, so that the same pitch event
\* applied twice yields the same target; the target of a sample-playback
\* voice is the playback rate as read at the call plus or minus value/100.
\* (Targets in 1/PitchUnit Hz: f*(1 + 1/1200)*value/100 is 1201*f*value in
\* 1/120000 Hz.)
C16_PitchReferenceFrames ==
    [][ \A v \in Voices :
          (Schedules(last', v) /\ last'.module \in PitchModules) =>
            LET x == last'.value
                f == voices[v].frequency
                target == TargetOf(log'[RateControl(v)])
            IN  IF voices[v].generator = OscillatorNode
                THEN /\ last'.module = PITCH_UP =>
                            target = PitchUnit * f + (PitchUnit \div 120000) * (1201 * f * x)
                     /\ last'.module = PITCH_DOWN =>
                            target = PitchUnit * f - (PitchUnit \div 240000) * (1201 * f * x)
                     /\ ( /\ IsCall(last) /\ last.module = last'.module
                          /\ last.value = x ) =>
                            TargetOf(log[RateControl(v)]) = target
                ELSE /\ last'.module = PITCH_UP =>
                            target = Reading(<<"playbackRate", v>>, last'.reading) + x
                     /\ last'.module = PITCH_DOWN =>
                            target = Reading(<<"playbackRate", v>>, last'.reading) - x
      ]_vars

\* a pitch-up event of value 50 made with the second reading has ramped an
\* oscillator voice of 220 Hz to 220 + 220 * 1201/1200 / 2 Hz and a
\* sample-playback voice to the rate read plus 0.5
C16_Witness ==
    /\ IsCall(last) /\ last.module = PITCH_UP /\ last.value = 50 /\ last.reading = 2
    /\ \E v, w \in Voices :
          /\ voices[v].active /\ voices[v].generator = OscillatorNode
          /\ voices[v].frequency = 220
          /\ log[<<"frequency", v>>] # <<>>
          /\ TargetOf(log[<<"frequency", v>>]) = PitchUnit * 220 + 2 * 1201 * 220 * 50
          /\ voices[w].active /\ voices[w].generator = AudioBufferSourceNode
          /\ log[<<"playbackRate", w>>] # <<>>
          /\ TargetOf(log[<<"playbackRate", w>>]) = Reading(<<"playbackRate", w>>, 2) + 50

\* C17: in a pitch event a voice whose generator is neither an oscillator nor
\* a sample player is skipped: no call is issued on any of its controls and
\* its gliding flag is unchanged, while every other live voice of the event
\* is scheduled.
C17_OtherGeneratorSkipped ==
    [][ (IsCall(last') /\ last'.module \in PitchModules) =>
          \A v \in Voices :
            voices[v].active =>
              IF voices[v].generator \in {OscillatorNode, AudioBufferSourceNode}
              THEN OpNames(log'[RateControl(v)]) \in OneCall
              ELSE /\ \A c \in Controls : c[2] = v => log'[c] = <<>>
                   /\ voices'[v] = voices[v]
      ]_vars

\* a glide pitch event has started the glide of an oscillator voice and has
\* passed over a live voice with another generator, whose flag is still false
C17_Witness ==
    /\ IsCall(last) /\ last.module \in PitchModules /\ last.glide
    /\ \E v, w \in Voices :
          /\ voices[v].active /\ voices[v].generator = OtherNode /\ ~voices[v].gliding
          /\ \A c \in Controls : c[2] = v => log[c] = <<>>
          /\ voices[w].active /\ voices[w].generator = OscillatorNode /\ voices[w].gliding
          /\ OpNames(log[<<"frequency", w>>]) = FreshGlide

RoutingModules == {FILTER_ENABLED, FILTER_LFO_ENABLED, DELAY_ENABLED}
VoiceModules == {VOLUME, PITCH_UP, PITCH_DOWN}

\* C18: only filter-enabled, filter-lfo-enabled and delay-enabled events call
\* the routing collaborator or change filterEnabled, delayEnabled or lfoType:
\* every dispatch of one of these three tags makes one routing call and every
\* other dispatch none (so that after any sequence of events the routing calls
\* are as many as the events of these tags), events of the other tags leave
\* the three fields unchanged, and pan, filter, delay and external events
\* leave every voice's gliding flag unchanged.
C18_OnlyEnableEventsRoute ==
    [][ IsCall(last') =>
          /\ Len(routing') = IF last'.module \in RoutingModules THEN 1 ELSE 0
          /\ last'.module \notin RoutingModules =>
                /\ modules'.filterEnabled = modules.filterEnabled
                /\ modules'.delayEnabled = modules.delayEnabled
                /\ instrument'.lfoType = instrument.lfoType
          /\ last'.module \notin VoiceModules =>
                \A v \in Voices : voices'[v].gliding = voices[v].gliding
      ]_vars

\* a gliding filter-q event has been dispatched with the filter and the delay
\* enabled, an LFO type selected and a voice gliding: it made no routing call
\* and all of these are as they were
C18_Witness ==
    /\ IsCall(last) /\ last.module = FILTER_Q /\ last.glide
    /\ modules.filterEnabled /\ modules.delayEnabled /\ instrument.lfoType # 0
    /\ \E v \in Voices : voices[v].active /\ voices[v].gliding
    /\ routing = <<>>
    /\ log[<<"filter.Q", 0>>] # <<>>

\* C19: a voice has one gliding flag for its gain control and its rate
\* control: the glide pitch event that follows a glide volume event on a voice
\* issues the ramp alone on the voice's frequency or playback-rate control,
\* with no cancel and no set-value, and so does on the gain control the glide
\* volume event that follows a glide pitch event.
C19_FlagSharedByControls ==
    [][ \A v \in Voices :
          ( /\ IsCall(last) /\ last.glide /\ Schedules(last, v)
            /\ last'.glide /\ Schedules(last', v)
            /\ \/ last.module = VOLUME /\ last'.module \in PitchModules
               \/ last.module \in PitchModules /\ last'.module = VOLUME ) =>
              LET ops == log'[VoiceControl(last', v)]
              IN  /\ OpNames(ops) = RampOnly
                  /\ \A i \in 1 .. Len(ops) :
                        ops[i].op \notin {"cancelScheduledValues", "setValueAtTime"}
                  /\ VoiceControl(last', v) # VoiceControl(last, v)
      ]_vars

\* a glide pitch-up event has ramped the playback rate of a sample-playback
\* voice whose flag an earlier glide had set, without cancel or set-value
C19_Witness ==
    /\ IsCall(last) /\ last.module = PITCH_UP /\ last.glide
    /\ \E v \in Voices :
          /\ voices[v].active /\ voices[v].generator = AudioBufferSourceNode
          /\ voices[v].gliding
          /\ OpNames(log[<<"playbackRate", v>>]) = RampOnly
          /\ log[<<"gain", v>>] = <<>>

\* C20: the callback receives the denormalization of the event's value as it
\* is when the timer fires: if the value was changed between the dispatch and
\* the firing, the callback is invoked with the denormalized new value, not
\* with that of the value at dispatch.
C20_CallbackReadsValueAtFiring ==
    [][ \A slot \in TimerIds :
          (timers[slot].state = "pending" /\ timers'[slot].state = "fired") =>
            LET got == callbacks'[slot][Len(callbacks'[slot])]
            IN  /\ got = CallbackArgument(timers[slot].value)
                /\ CallbackArgument(timers[slot].value)
                        # CallbackArgument(timers[slot].dispatched) =>
                      got # CallbackArgument(timers[slot].dispatched)
      ]_vars

\* the timer of an event dispatched with value 0 and edited before the
\* timer fired has invoked the callback with 255
C20_Witness ==
    /\ last.op = "timerFire"
    /\ \E slot \in TimerIds :
          /\ last.slot = slot
          /\ timers[slot].state = "fired"
          /\ timers[slot].dispatched = 0
          /\ callbacks[slot] = << 255 >>

====
